---- MODULE Spec2Model ----
(***************************************************************************)
(* Model of the two command-line scripts of backend/scripts:               *)
(*   generate_image.py        (the generator)                              *)
(*   install_image_model.py   (the installer, with its heartbeat thread)   *)
(*                                                                         *)
(* Strings the code inspects (model identifiers, --use-cpu values, paths)  *)
(* are sequences of one-character strings, so that lower(), substring      *)
(* tests and os.path.join are computed, not assumed.  Guidance scales are  *)
(* kept in tenths (1.0 -> 10, 7.5 -> 75).                                  *)
(***************************************************************************)
EXTENDS Integers, Sequences, FiniteSets, TLC

VARIABLES
    now,        \* the clock read by time.time(), in whole seconds
    runs,       \* number of processes started so far (the current run's id)
    dirs,       \* directories that exist on disk (resolved paths)
    files,      \* image files on disk: [path, run], the run that wrote the file last
    cache,      \* model identifiers the library has cached locally
    history,    \* finished processes: [run, prog, status, stdout]
    prog,       \* which script the current process runs
    cmdline,    \* the command line given to the current process
    cuda,       \* torch.cuda.is_available() in the current process
    args,       \* the parsed arguments (argparse namespace)
    pc,         \* position of the main thread
    exc,        \* the exception in flight, [type, msg]
    use_cpu, device, dtype, num_steps, guidance,
    calls,      \* invocations of the pipeline: [steps, guidance]
    output_path,
    stdout, stderr,
    status,     \* exit status of the process, Running while it runs
    done,       \* the installer's threading.Event
    hbpc,       \* position of the heartbeat thread
    count       \* the heartbeat's counter

vars == <<now, runs, dirs, files, cache, history, prog, cmdline, cuda, args, pc,
          exc, use_cpu, device, dtype, num_steps, guidance, calls, output_path,
          stdout, stderr, status, done, hbpc, count>>

----------------------------------------------------------------------------
(* Bounds of the model *)

MaxRuns == 2      \* processes started one after another (RunsSpec)
MaxClock == 2     \* the clock runs over 0..MaxClock
MaxPings == 2     \* heartbeat lines one installer run may print
MaxFrags == 3     \* fragments a model identifier is built from (ClassifySpec)

(* Program constants *)

TurboSteps == 4
TurboGuidance == 10
XlSteps == 30
DefaultSteps == 25
DefaultGuidance == 75
Interval == 15
ExitFailure == 1
ExitUsage == 2
ExitSuccess == 0

Running == -1

----------------------------------------------------------------------------
(* Strings *)

Absent == <<"<absent>">>

UpperChars == <<"T", "U", "R", "B", "O", "X", "L", "S", "D", "E">>
LowerChars == <<"t", "u", "r", "b", "o", "x", "l", "s", "d", "e">>

LowerChar(c) ==
    IF \E i \in 1..Len(UpperChars) : UpperChars[i] = c
    THEN LowerChars[CHOOSE i \in 1..Len(UpperChars) : UpperChars[i] = c]
    ELSE c

\* str.lower()
Lower(s) == [i \in 1..Len(s) |-> LowerChar(s[i])]

\* sub in s
Contains(sub, s) ==
    \E i \in 0..(Len(s) - Len(sub)) : SubSeq(s, i + 1, i + Len(sub)) = sub

StrTrue == <<"t", "r", "u", "e">>
StrFalse == <<"f", "a", "l", "s", "e">>
StrTurbo == <<"t", "u", "r", "b", "o">>
StrXl == <<"x", "l">>
StrSdxl == <<"s", "d", "x", "l">>

Digits == <<"0", "1", "2", "3", "4", "5", "6", "7", "8", "9">>

RECURSIVE Str(_)
\* str(int) of a non-negative integer
Str(n) == IF n < 10 THEN <<Digits[n + 1]>> ELSE Str(n \div 10) \o <<Digits[(n % 10) + 1]>>

----------------------------------------------------------------------------
(* Paths: sequences of characters, "/" the separator *)

Cwd == <<"/", "w">>

IsAbs(p) == Len(p) > 0 /\ p[1] = "/"

\* os.path.join(a, b) on POSIX
Join(a, b) ==
    IF IsAbs(b) THEN b
    ELSE IF a = <<>> \/ a[Len(a)] = "/" THEN a \o b
    ELSE a \o <<"/">> \o b

\* the file or directory a path names, given the working directory
Resolve(p) == IF IsAbs(p) THEN p ELSE Join(Cwd, p)

\* f"generated-{int(time.time())}.png"
FileName(t) == <<"g", "e", "n", "e", "r", "a", "t", "e", "d", "-">> \o Str(t) \o <<".", "p", "n", "g">>

\* os.path.join(output_dir, f"generated-{int(time.time())}.png")
OutputPath(output_dir, t) == Join(output_dir, FileName(t))

----------------------------------------------------------------------------
(* Inputs *)

\* default of --model in generate_image.py: runwayml/stable-diffusion-v1-5
DefaultModel ==
    <<"r", "u", "n", "w", "a", "y", "m", "l", "/", "s", "t", "a", "b", "l", "e", "-",
      "d", "i", "f", "f", "u", "s", "i", "o", "n", "-", "v", "1", "-", "5">>

\* default of --use-cpu in both scripts
DefaultUseCpu == StrFalse

SdTurbo == <<"s", "d", "-">> \o StrTurbo
SdxlBase == StrSdxl \o <<"-", "b", "a", "s", "e">>
SdxlTurbo == <<"S", "D", "X", "L", "-", "T", "u", "r", "b", "o">>

Models == {SdTurbo, SdxlBase, SdxlTurbo}

UseCpuValues ==
    { StrTrue, <<"T", "r", "u", "e">>, <<"T", "R", "U", "E">>, StrFalse, <<"1">> }

OutputDirs == { <<"/", "w", "/", "o">>, <<"o">>, <<"/", "i">> }

Prompt == <<"a", " ", "c", "a", "t">>

\* fragments model identifiers are built from (ClassifySpec)
Frags ==
    { StrTurbo, <<"T", "u", "r", "B", "O">>, StrXl, <<"X", "L">>, <<"s", "d">>,
      <<"x">>, <<"l">>, <<"t", "u", "r">>, <<"b", "o">>, <<"-">> }

RECURSIVE Ids(_)
Ids(k) == IF k = 0 THEN {<<>>} ELSE Ids(k - 1) \cup {a \o b : a \in Ids(k - 1), b \in Frags}

GenCmd(h, b, p, m, d, c) ==
    [help |-> h, bad |-> b, prompt |-> p, model |-> m, output_dir |-> d, use_cpu |-> c]

\* generator command lines: the valid ones, and one of each invalid kind
GenCmds(models, outdirs, cpus) ==
    {GenCmd(FALSE, FALSE, Prompt, m, d, c) : m \in models, d \in outdirs, c \in cpus}
    \cup { GenCmd(TRUE, FALSE, Absent, Absent, Absent, Absent),
           GenCmd(FALSE, TRUE, Prompt, Absent, <<"o">>, Absent),
           GenCmd(FALSE, FALSE, Absent, Absent, <<"o">>, Absent),
           GenCmd(FALSE, FALSE, Prompt, Absent, Absent, Absent) }

\* installer command lines (it has no --prompt and no --output-dir)
InstCmds(models, cpus) ==
    {GenCmd(FALSE, FALSE, Absent, m, Absent, c) : m \in models, c \in cpus}
    \cup { GenCmd(TRUE, FALSE, Absent, Absent, Absent, Absent),
           GenCmd(FALSE, TRUE, Absent, SdTurbo, Absent, Absent),
           GenCmd(FALSE, FALSE, Absent, Absent, Absent, Absent) }

NoArgs == [prompt |-> Absent, model |-> Absent, output_dir |-> Absent, use_cpu |-> Absent]
NoExc == [type |-> "none", msg |-> ""]
Line(tag, arg) == [tag |-> tag, arg |-> arg]

\* outcomes of a call into the library or the operating system
Raises == { [type |-> "ImportError", msg |-> "missing"], [type |-> "Exception", msg |-> "failed"] }

----------------------------------------------------------------------------
(* The state before any process is started *)

Init ==
    /\ now = 0
    /\ runs = 0
    /\ dirs = {}
    /\ files = {}
    /\ cache = {}
    /\ history = <<>>
    /\ prog = "none"
    /\ cmdline = GenCmd(FALSE, FALSE, Absent, Absent, Absent, Absent)
    /\ cuda = FALSE
    /\ args = NoArgs
    /\ pc = "idle"
    /\ exc = NoExc
    /\ use_cpu = FALSE
    /\ device = "unset"
    /\ dtype = "unset"
    /\ num_steps = 0
    /\ guidance = 0
    /\ calls = <<>>
    /\ output_path = <<>>
    /\ stdout = <<>>
    /\ stderr = <<>>
    /\ status = Running
    /\ done = FALSE
    /\ hbpc = "unstarted"
    /\ count = 0

procVars == <<prog, cmdline, cuda, args, pc, exc, use_cpu, device, dtype, num_steps,
              guidance, calls, output_path, stdout, stderr, status, done, hbpc, count>>
diskVars == <<dirs, files, cache>>
envVars == <<now, runs, history>>
workVars == <<use_cpu, device, dtype, num_steps, guidance, calls, output_path>>
hbVars == <<done, hbpc, count>>

\* the clock advances between processes
Tick ==
    /\ pc = "idle"
    /\ now < MaxClock
    /\ now' = now + 1
    /\ UNCHANGED <<runs, history, diskVars, procVars>>

\* a process is started with a command line, in an environment
Launch(p, c, gpu) ==
    /\ pc = "idle"
    /\ runs' = runs + 1
    /\ prog' = p
    /\ cmdline' = c
    /\ cuda' = gpu
    /\ pc' = "parse"
    /\ UNCHANGED <<now, history, diskVars, args, exc, workVars, stdout, stderr, status, hbVars>>

\* the process is gone; the next one starts from a fresh interpreter
Reap ==
    /\ pc = "exited"
    /\ history' = Append(history, [run |-> runs, prog |-> prog, status |-> status, stdout |-> stdout])
    /\ prog' = "none"
    /\ cmdline' = GenCmd(FALSE, FALSE, Absent, Absent, Absent, Absent)
    /\ cuda' = FALSE
    /\ args' = NoArgs
    /\ pc' = "idle"
    /\ exc' = NoExc
    /\ use_cpu' = FALSE
    /\ device' = "unset"
    /\ dtype' = "unset"
    /\ num_steps' = 0
    /\ guidance' = 0
    /\ calls' = <<>>
    /\ output_path' = <<>>
    /\ stdout' = <<>>
    /\ stderr' = <<>>
    /\ status' = Running
    /\ done' = FALSE
    /\ hbpc' = "unstarted"
    /\ count' = 0
    /\ UNCHANGED <<now, runs, diskVars>>

----------------------------------------------------------------------------
(* Helpers shared by the actions *)

ToStderr(tag, arg) == stderr' = Append(stderr, Line(tag, arg))
ToStdout(tag, arg) == stdout' = Append(stdout, Line(tag, arg))

\* the value of an option: the one given, or its default
Given(v, default) == IF v = Absent THEN default ELSE v

\* writing a file creates it or replaces its content
WriteFile(fs, path, run) == {f \in fs : f.path # path} \cup {[path |-> path, run |-> run]}

----------------------------------------------------------------------------
(* generate_image.py *)

\* args.use_cpu.lower() == 'true'
GenUseCpu(s) == Lower(s) = StrTrue

\* device = "cpu" if use_cpu else ("cuda" if torch.cuda.is_available() else "cpu")
GenDevice(forced, gpu) == IF forced THEN "cpu" ELSE IF gpu THEN "cuda" ELSE "cpu"

\* dtype = torch.float16 if device == "cuda" else torch.float32
GenDtype(dev) == IF dev = "cuda" THEN "float16" ELSE "float32"

\* Classify with the XL test made before the turbo test
ClassifyXlFirst(model_name) ==
    LET is_turbo == Contains(StrTurbo, Lower(model_name))
        is_sdxl == Contains(StrXl, Lower(model_name)) \/ Contains(StrSdxl, Lower(model_name))
    IN  IF is_sdxl THEN [steps |-> XlSteps, guidance |-> DefaultGuidance]
        ELSE IF is_turbo THEN [steps |-> TurboSteps, guidance |-> TurboGuidance]
        ELSE [steps |-> DefaultSteps, guidance |-> DefaultGuidance]

\* the sampling preset of a model identifier
Classify(model_name) ==
    LET is_turbo == Contains(StrTurbo, Lower(model_name))
        is_sdxl == Contains(StrXl, Lower(model_name)) \/ Contains(StrSdxl, Lower(model_name))
    IN  IF is_turbo THEN [steps |-> TurboSteps, guidance |-> TurboGuidance]
        ELSE IF is_sdxl THEN [steps |-> XlSteps, guidance |-> DefaultGuidance]
        ELSE [steps |-> DefaultSteps, guidance |-> DefaultGuidance]

\* argparse rejects the command line: an unknown option, or a required one missing
GenRejected(c) == c.bad \/ c.prompt = Absent \/ c.output_dir = Absent

\* parser.parse_args(), then use_cpu and the call of generate_image
GParse ==
    /\ prog = "generator" /\ pc = "parse"
    /\ \/ /\ cmdline.help
          /\ ToStdout("help", <<>>)
          /\ status' = ExitSuccess
          /\ pc' = "exited"
          /\ UNCHANGED <<args, use_cpu, stderr>>
       \/ /\ ~cmdline.help
          /\ GenRejected(cmdline)
          /\ ToStderr("usage", <<>>)
          /\ status' = ExitUsage
          /\ pc' = "exited"
          /\ UNCHANGED <<args, use_cpu, stdout>>
       \/ /\ ~cmdline.help
          /\ ~GenRejected(cmdline)
          /\ args' = [prompt |-> cmdline.prompt,
                      model |-> Given(cmdline.model, DefaultModel),
                      output_dir |-> cmdline.output_dir,
                      use_cpu |-> Given(cmdline.use_cpu, DefaultUseCpu)]
          /\ use_cpu' = GenUseCpu(args'.use_cpu)
          /\ pc' = "g_import"
          /\ UNCHANGED <<stdout, stderr, status>>
    /\ UNCHANGED <<envVars, diskVars, prog, cmdline, cuda, exc, device, dtype, num_steps,
                   guidance, calls, output_path, hbVars>>

\* from diffusers import ...; import torch; print "Loading model"
GImport ==
    /\ prog = "generator" /\ pc = "g_import"
    /\ \/ /\ ToStderr("Loading model", args.model)
          /\ pc' = "g_device"
          /\ UNCHANGED exc
       \/ \E e \in Raises :
          /\ exc' = e
          /\ pc' = "g_except"
          /\ UNCHANGED stderr
    /\ UNCHANGED <<envVars, diskVars, prog, cmdline, cuda, args, workVars, stdout, status, hbVars>>

\* device and dtype; print "Using device"
GSelect ==
    /\ prog = "generator" /\ pc = "g_device"
    /\ \/ /\ device' = GenDevice(use_cpu, cuda)
          /\ dtype' = GenDtype(device')
          /\ ToStderr("Using device", <<device'>>)
          /\ pc' = "g_load"
          /\ UNCHANGED exc
       \/ \E e \in Raises :
          /\ ~use_cpu          \* torch.cuda.is_available() is only called then
          /\ exc' = e
          /\ pc' = "g_except"
          /\ UNCHANGED <<device, dtype, stderr>>
    /\ UNCHANGED <<envVars, diskVars, prog, cmdline, cuda, args, use_cpu, num_steps, guidance,
                   calls, output_path, stdout, status, hbVars>>

\* AutoPipelineForText2Image.from_pretrained(model_name, torch_dtype=dtype)
GLoad ==
    /\ prog = "generator" /\ pc = "g_load"
    /\ \/ /\ cache' = cache \cup {args.model}
          /\ pc' = "g_to"
          /\ UNCHANGED exc
       \/ \E e \in Raises :
          /\ exc' = e
          /\ pc' = "g_except"
          /\ UNCHANGED cache
    /\ UNCHANGED <<envVars, dirs, files, prog, cmdline, cuda, args, workVars, stdout, stderr,
                   status, hbVars>>

\* pipe.to(device); on the CPU, pipe.enable_attention_slicing()
GTo ==
    /\ prog = "generator" /\ pc = "g_to"
    /\ \/ /\ pc' = "g_classify"
          /\ UNCHANGED exc
       \/ \E e \in Raises :
          /\ exc' = e
          /\ pc' = "g_except"
    /\ UNCHANGED <<envVars, diskVars, prog, cmdline, cuda, args, workVars, stdout, stderr,
                   status, hbVars>>

\* the preset of the model; print "Generating image..."
GClassify ==
    /\ prog = "generator" /\ pc = "g_classify"
    /\ num_steps' = Classify(args.model).steps
    /\ guidance' = Classify(args.model).guidance
    /\ ToStderr("Generating image", <<>>)
    /\ pc' = "g_pipe"
    /\ UNCHANGED <<envVars, diskVars, prog, cmdline, cuda, args, exc, use_cpu, device, dtype,
                   calls, output_path, stdout, status, hbVars>>

\* image = pipe(prompt, num_inference_steps=..., guidance_scale=...).images[0]
GPipe ==
    /\ prog = "generator" /\ pc = "g_pipe"
    /\ calls' = Append(calls, [prompt |-> args.prompt, steps |-> num_steps, guidance |-> guidance])
    /\ \/ /\ pc' = "g_makedirs"
          /\ UNCHANGED exc
       \/ \E e \in Raises :
          /\ exc' = e
          /\ pc' = "g_except"
    /\ UNCHANGED <<envVars, diskVars, prog, cmdline, cuda, args, use_cpu, device, dtype,
                   num_steps, guidance, output_path, stdout, stderr, status, hbVars>>

\* os.makedirs(output_dir, exist_ok=True)
GMakedirs ==
    /\ prog = "generator" /\ pc = "g_makedirs"
    /\ \/ /\ dirs' = dirs \cup {Resolve(args.output_dir)}
          /\ pc' = "g_save"
          /\ UNCHANGED exc
       \/ \E e \in Raises :
          /\ exc' = e
          /\ pc' = "g_except"
          /\ UNCHANGED dirs
    /\ UNCHANGED <<envVars, files, cache, prog, cmdline, cuda, args, workVars, stdout, stderr,
                   status, hbVars>>

\* GSave with a failed write not raised
GSaveIgnoringFailure ==
    /\ prog = "generator" /\ pc = "g_save"
    /\ output_path' = OutputPath(args.output_dir, now)
    /\ \/ /\ Resolve(args.output_dir) \in dirs
          /\ files' = WriteFile(files, Resolve(output_path'), runs)
       \/ UNCHANGED files
    /\ pc' = "g_print"
    /\ UNCHANGED <<envVars, dirs, cache, prog, cmdline, cuda, args, exc, use_cpu, device, dtype,
                   num_steps, guidance, calls, stdout, stderr, status, hbVars>>

\* output_path = os.path.join(...); image.save(output_path)
GSave ==
    /\ prog = "generator" /\ pc = "g_save"
    /\ output_path' = OutputPath(args.output_dir, now)
    /\ \/ /\ Resolve(args.output_dir) \in dirs
          /\ files' = WriteFile(files, Resolve(output_path'), runs)
          /\ pc' = "g_print"
          /\ UNCHANGED exc
       \/ \E e \in Raises :
          /\ exc' = e
          /\ pc' = "g_except"
          /\ UNCHANGED files
    /\ UNCHANGED <<envVars, dirs, cache, prog, cmdline, cuda, args, use_cpu, device, dtype,
                   num_steps, guidance, calls, stdout, stderr, status, hbVars>>

\* print(f"IMAGE_PATH:{output_path}", flush=True)
GPrint ==
    /\ prog = "generator" /\ pc = "g_print"
    /\ ToStdout("IMAGE_PATH:", output_path)
    /\ pc' = "g_return"
    /\ UNCHANGED <<envVars, diskVars, prog, cmdline, cuda, args, exc, workVars, stderr,
                   status, hbVars>>

\* return output_path; the script ends
GReturn ==
    /\ prog = "generator" /\ pc = "g_return"
    /\ status' = ExitSuccess
    /\ pc' = "exited"
    /\ UNCHANGED <<envVars, diskVars, prog, cmdline, cuda, args, exc, workVars, stdout,
                   stderr, hbVars>>

\* except ImportError / except Exception: the ERROR line
GExcept ==
    /\ prog = "generator" /\ pc = "g_except"
    /\ \/ /\ exc.type = "ImportError"
          /\ ToStderr("ERROR: Missing required library:", <<exc.msg>>)
          /\ pc' = "g_exit"
       \/ /\ exc.type # "ImportError"
          /\ ToStderr("ERROR:", <<exc.msg>>)
          /\ pc' = "g_trace"
    /\ UNCHANGED <<envVars, diskVars, prog, cmdline, cuda, args, exc, workVars, stdout,
                   status, hbVars>>

\* traceback.print_exc(file=sys.stderr)
GTrace ==
    /\ prog = "generator" /\ pc = "g_trace"
    /\ ToStderr("Traceback", <<exc.type>>)
    /\ pc' = "g_exit"
    /\ UNCHANGED <<envVars, diskVars, prog, cmdline, cuda, args, exc, workVars, stdout,
                   status, hbVars>>

\* GExit with the handlers falling off the end of the script
GExitZero ==
    /\ prog = "generator" /\ pc = "g_exit"
    /\ status' = ExitSuccess
    /\ pc' = "exited"
    /\ UNCHANGED <<envVars, diskVars, prog, cmdline, cuda, args, exc, workVars, stdout,
                   stderr, hbVars>>

\* sys.exit(1)
GExit ==
    /\ prog = "generator" /\ pc = "g_exit"
    /\ status' = ExitFailure
    /\ pc' = "exited"
    /\ UNCHANGED <<envVars, diskVars, prog, cmdline, cuda, args, exc, workVars, stdout,
                   stderr, hbVars>>

Generator ==
    \/ GParse \/ GImport \/ GSelect \/ GLoad \/ GTo \/ GClassify \/ GPipe
    \/ GMakedirs \/ GSave \/ GPrint \/ GReturn \/ GExcept \/ GTrace \/ GExit

----------------------------------------------------------------------------
(* install_image_model.py: the main thread *)

\* InstUseCpu without lower()
InstUseCpuCaseSensitive(s) == s = StrTrue

\* use_cpu = args.use_cpu.lower() == 'true'
InstUseCpu(s) == Lower(s) = StrTrue

\* device = "cpu" if use_cpu else ("cuda" if torch.cuda.is_available() else "cpu")
InstDevice(forced, gpu) == IF forced THEN "cpu" ELSE IF gpu THEN "cuda" ELSE "cpu"

\* dtype = torch.float16 if device == "cuda" else torch.float32
InstDtype(dev) == IF dev = "cuda" THEN "float16" ELSE "float32"

\* argparse rejects the command line: an unknown option, or --model missing
InstRejected(c) == c.bad \/ c.model = Absent

\* parser.parse_args()
IParse ==
    /\ prog = "installer" /\ pc = "parse"
    /\ \/ /\ cmdline.help
          /\ ToStdout("help", <<>>)
          /\ status' = ExitSuccess
          /\ pc' = "exited"
          /\ UNCHANGED <<args, stderr>>
       \/ /\ ~cmdline.help
          /\ InstRejected(cmdline)
          /\ ToStderr("usage", <<>>)
          /\ status' = ExitUsage
          /\ pc' = "exited"
          /\ UNCHANGED <<args, stdout>>
       \/ /\ ~cmdline.help
          /\ ~InstRejected(cmdline)
          /\ args' = [prompt |-> Absent,
                      model |-> cmdline.model,
                      output_dir |-> Absent,
                      use_cpu |-> Given(cmdline.use_cpu, DefaultUseCpu)]
          /\ pc' = "i_import"
          /\ UNCHANGED <<stdout, stderr, status>>
    /\ UNCHANGED <<envVars, diskVars, prog, cmdline, cuda, exc, workVars, hbVars>>

\* the imports, use_cpu, and the three lines printed before the download
IImport ==
    /\ prog = "installer" /\ pc = "i_import"
    /\ \/ /\ use_cpu' = InstUseCpu(args.use_cpu)
          /\ stderr' = stderr \o << Line("Downloading model", args.model),
                                    Line("First install", <<>>),
                                    Line("If it runs longer", <<>>) >>
          /\ pc' = "i_start"
          /\ UNCHANGED exc
       \/ \E e \in Raises :
          /\ exc' = e
          /\ pc' = "i_except"
          /\ UNCHANGED <<use_cpu, stderr>>
    /\ UNCHANGED <<envVars, diskVars, prog, cmdline, cuda, args, device, dtype, num_steps,
                   guidance, calls, output_path, stdout, status, hbVars>>

\* done = threading.Event(); t = threading.Thread(..., daemon=True); t.start()
IStart ==
    /\ prog = "installer" /\ pc = "i_start"
    /\ \/ /\ done' = FALSE
          /\ count' = 0
          /\ hbpc' = "h_while"
          /\ pc' = "i_device"
          /\ UNCHANGED exc
       \/ \E e \in Raises :
          /\ e.type = "Exception"      \* the thread cannot be started
          /\ exc' = e
          /\ pc' = "i_except"
          /\ UNCHANGED hbVars
    /\ UNCHANGED <<envVars, diskVars, prog, cmdline, cuda, args, workVars, stdout, stderr, status>>

\* try: device and dtype
ISelect ==
    /\ prog = "installer" /\ pc = "i_device"
    /\ \/ /\ device' = InstDevice(use_cpu, cuda)
          /\ dtype' = InstDtype(device')
          /\ pc' = "i_load"
          /\ UNCHANGED exc
       \/ \E e \in Raises :
          /\ ~use_cpu          \* torch.cuda.is_available() is only called then
          /\ exc' = e
          /\ pc' = "i_finally"
          /\ UNCHANGED <<device, dtype>>
    /\ UNCHANGED <<envVars, diskVars, prog, cmdline, cuda, args, use_cpu, num_steps, guidance,
                   calls, output_path, stdout, stderr, status, hbVars>>

\* try: AutoPipelineForText2Image.from_pretrained(model_name, torch_dtype=dtype, token=...)
ILoad ==
    /\ prog = "installer" /\ pc = "i_load"
    /\ \/ /\ cache' = cache \cup {args.model}
          /\ UNCHANGED exc
       \/ \E e \in Raises :
          /\ exc' = e
          /\ UNCHANGED cache
    /\ pc' = "i_finally"
    /\ UNCHANGED <<envVars, dirs, files, prog, cmdline, cuda, args, workVars, stdout, stderr,
                   status, hbVars>>

\* IFinally with done.set() after the try block instead of in its finally clause
IFinallyOnSuccessOnly ==
    /\ prog = "installer" /\ pc = "i_finally"
    /\ done' = (exc.type = "none")
    /\ pc' = IF exc.type = "none" THEN "i_report" ELSE "i_except"
    /\ UNCHANGED <<envVars, diskVars, prog, cmdline, cuda, args, exc, workVars, stdout, stderr,
                   status, hbpc, count>>

\* finally: done.set(); then on, or to the handler of the exception in flight
IFinally ==
    /\ prog = "installer" /\ pc = "i_finally"
    /\ done' = TRUE
    /\ pc' = IF exc.type = "none" THEN "i_report" ELSE "i_except"
    /\ UNCHANGED <<envVars, diskVars, prog, cmdline, cuda, args, exc, workVars, stdout, stderr,
                   status, hbpc, count>>

\* print "Model installed successfully" to standard error
IReport ==
    /\ prog = "installer" /\ pc = "i_report"
    /\ ToStderr("Model installed successfully:", args.model)
    /\ pc' = "i_ok"
    /\ UNCHANGED <<envVars, diskVars, prog, cmdline, cuda, args, exc, workVars, stdout,
                   status, hbVars>>

\* print("INSTALL_OK")
IOk ==
    /\ prog = "installer" /\ pc = "i_ok"
    /\ ToStdout("INSTALL_OK", <<>>)
    /\ pc' = "i_return"
    /\ UNCHANGED <<envVars, diskVars, prog, cmdline, cuda, args, exc, workVars, stderr,
                   status, hbVars>>

\* main() returns and the interpreter exits; the daemon thread ends with it
IReturn ==
    /\ prog = "installer" /\ pc = "i_return"
    /\ status' = ExitSuccess
    /\ pc' = "exited"
    /\ UNCHANGED <<envVars, diskVars, prog, cmdline, cuda, args, exc, workVars, stdout,
                   stderr, hbVars>>

\* IExcept with one handler for every exception
IExceptOneHandler ==
    /\ prog = "installer" /\ pc = "i_except"
    /\ ToStderr("ERROR:", <<exc.msg>>)
    /\ pc' = "i_trace"
    /\ UNCHANGED <<envVars, diskVars, prog, cmdline, cuda, args, exc, workVars, stdout,
                   status, hbVars>>

\* except ImportError / except Exception: the ERROR line
IExcept ==
    /\ prog = "installer" /\ pc = "i_except"
    /\ \/ /\ exc.type = "ImportError"
          /\ ToStderr("ERROR: Missing required library:", <<exc.msg>>)
          /\ pc' = "i_exit"
       \/ /\ exc.type # "ImportError"
          /\ ToStderr("ERROR:", <<exc.msg>>)
          /\ pc' = "i_trace"
    /\ UNCHANGED <<envVars, diskVars, prog, cmdline, cuda, args, exc, workVars, stdout,
                   status, hbVars>>

\* traceback.print_exc(file=sys.stderr)
ITrace ==
    /\ prog = "installer" /\ pc = "i_trace"
    /\ ToStderr("Traceback", <<exc.type>>)
    /\ pc' = "i_exit"
    /\ UNCHANGED <<envVars, diskVars, prog, cmdline, cuda, args, exc, workVars, stdout,
                   status, hbVars>>

\* sys.exit(1); the daemon thread ends with the process
IExit ==
    /\ prog = "installer" /\ pc = "i_exit"
    /\ status' = ExitFailure
    /\ pc' = "exited"
    /\ UNCHANGED <<envVars, diskVars, prog, cmdline, cuda, args, exc, workVars, stdout,
                   stderr, hbVars>>

Installer ==
    \/ IParse \/ IImport \/ IStart \/ ISelect \/ ILoad \/ IFinally \/ IReport \/ IOk
    \/ IReturn \/ IExcept \/ ITrace \/ IExit

----------------------------------------------------------------------------
(* install_image_model.py: progress_ping, the heartbeat thread *)

hbFrame == <<envVars, diskVars, prog, cmdline, cuda, args, pc, exc, workVars, stdout, status, done>>

\* while not done.is_set():
HbWhile ==
    /\ status = Running /\ hbpc = "h_while"
    /\ hbpc' = IF done THEN "h_end" ELSE "h_wait"
    /\ UNCHANGED <<hbFrame, stderr, count>>

\* done.wait(timeout=15) returns: the event is set, or the interval has passed
HbWait ==
    /\ status = Running /\ hbpc = "h_wait"
    /\ done \/ count < MaxPings
    /\ hbpc' = "h_check"
    /\ UNCHANGED <<hbFrame, stderr, count>>

\* if done.is_set(): break
HbCheck ==
    /\ status = Running /\ hbpc = "h_check"
    /\ hbpc' = IF done THEN "h_end" ELSE "h_print"
    /\ UNCHANGED <<hbFrame, stderr, count>>

\* HbPrint without file=sys.stderr
HbPrintToStdout ==
    /\ status = Running /\ hbpc = "h_print"
    /\ count' = count + 1
    /\ ToStdout("Still downloading...", <<count' * Interval>>)
    /\ hbpc' = "h_while"
    /\ UNCHANGED <<envVars, diskVars, prog, cmdline, cuda, args, pc, exc, workVars, stderr,
                   status, done>>

\* count += 1; elapsed = count * 15; print "Still downloading..."
HbPrint ==
    /\ status = Running /\ hbpc = "h_print"
    /\ count' = count + 1
    /\ ToStderr("Still downloading...", <<count' * Interval>>)
    /\ hbpc' = "h_while"
    /\ UNCHANGED hbFrame

Heartbeat == HbWhile \/ HbWait \/ HbCheck \/ HbPrint

----------------------------------------------------------------------------
(* Specifications *)

\* one process, either script, any command line
Start ==
    /\ runs = 0
    /\ \E gpu \in BOOLEAN :
       \/ \E c \in GenCmds(Models \cup {Absent}, OutputDirs, UseCpuValues \cup {Absent}) :
             Launch("generator", c, gpu)
       \/ \E c \in InstCmds({SdTurbo}, UseCpuValues \cup {Absent}) :
             Launch("installer", c, gpu)

Next == Tick \/ Start \/ Generator \/ Installer \/ Heartbeat

Spec == Init /\ [][Next]_vars

\* the heartbeat thread is scheduled as long as the process runs
FairSpec == Spec /\ WF_vars(Heartbeat)

\* generator processes one after another, into the same directories
StartRun ==
    /\ runs < MaxRuns
    /\ \E c \in GenCmds({Absent}, OutputDirs, {Absent}) : Launch("generator", c, TRUE)

NextRuns == Tick \/ StartRun \/ Generator \/ Reap

RunsSpec == Init /\ [][NextRuns]_vars

\* one generator process, over many model identifiers
StartClassify ==
    /\ runs = 0
    /\ \E c \in GenCmds(Ids(MaxFrags), {<<"o">>}, {Absent}) : Launch("generator", c, TRUE)

NextClassify == StartClassify \/ Generator

ClassifySpec == Init /\ [][NextClassify]_vars

----------------------------------------------------------------------------
(* What the properties speak of *)

Exited == pc = "exited"

\* lines of a stream carrying a tag
Tagged(stream, tag) == {i \in DOMAIN stream : stream[i].tag = tag}

\* the current process wrote its image file
ImageWritten == \E f \in files : f.run = runs /\ f.path = Resolve(output_path)

\* the current process did what it was run for
WorkDone ==
    \/ prog = "generator" /\ ImageWritten
    \/ prog = "installer" /\ args.model # Absent /\ args.model \in cache

\* the command line was rejected by the argument parser
Rejected ==
    /\ ~cmdline.help
    /\ \/ prog = "generator" /\ GenRejected(cmdline)
       \/ prog = "installer" /\ InstRejected(cmdline)

RunSucceeded == Exited /\ WorkDone
RunFailed == Exited /\ ~WorkDone /\ ~cmdline.help

Marker == IF prog = "generator" THEN "IMAGE_PATH:" ELSE "INSTALL_OK"

DiagnosticTags ==
    { "usage", "Loading model", "Using device", "Generating image", "Downloading model",
      "First install", "If it runs longer", "Still downloading...",
      "Model installed successfully:", "ERROR:", "ERROR: Missing required library:",
      "Traceback" }

ResultTags == {"Model installed successfully:", "ERROR:", "ERROR: Missing required library:"}

----------------------------------------------------------------------------
(* C1: standard output carries exactly one line, the marker line of the     *)
(* script, on a successful run, and nothing on a failed run; no progress or *)
(* error diagnostic, heartbeat lines included, is ever on standard output.  *)
C1_StdoutOnlyMarker ==
    /\ RunSucceeded => Len(stdout) = 1 /\ stdout[1].tag = Marker
    /\ RunFailed => stdout = <<>>
    /\ \A i \in DOMAIN stdout : stdout[i].tag \notin DiagnosticTags
    /\ \A i \in DOMAIN stderr : stderr[i].tag \in DiagnosticTags

C1_Witness ==
    /\ RunSucceeded /\ prog = "installer"
    /\ Tagged(stderr, "Still downloading...") # {}
    /\ stdout = <<Line("INSTALL_OK", <<>>)>>

(* C2, as claimed: a run exits with status 0 exactly if it succeeded, and   *)
(* with status 1 on any failure, argument parsing included.                 *)
C2_Original ==
    Exited /\ ~cmdline.help =>
        /\ status = ExitSuccess <=> WorkDone
        /\ ~WorkDone => status = ExitFailure

(* C2, amended: status 0 exactly if the run succeeded (or only printed the  *)
(* --help text); status 1 on a failure of the import, the device selection, *)
(* the model load, the generation/download or the write; status 2 when the  *)
(* argument parser rejects the command line.                                *)
C2_ExitStatus ==
    Exited =>
        /\ status = ExitSuccess <=> (WorkDone \/ cmdline.help)
        /\ Rejected => status = ExitUsage
        /\ ~WorkDone /\ ~cmdline.help /\ ~Rejected => status = ExitFailure /\ exc.type # "none"
        /\ status \in {ExitSuccess, ExitFailure, ExitUsage}

C2_Witness == Exited /\ prog = "generator" /\ Rejected /\ status = ExitUsage

(* C3: once the installer's main thread has written its result line, the    *)
(* heartbeat thread has finished and no "Still downloading..." line follows *)
(* the result.                                                              *)
C3_TornDownBeforeResult ==
    prog = "installer" =>
        \A i \in DOMAIN stderr : stderr[i].tag \in ResultTags =>
            /\ hbpc \in {"unstarted", "h_end"}
            /\ \A j \in DOMAIN stderr : j > i => stderr[j].tag # "Still downloading..."

\* a heartbeat line follows the installer's result line
C3_LateHeartbeat ==
    /\ prog = "installer"
    /\ \E i, j \in DOMAIN stderr :
          /\ i < j
          /\ stderr[i].tag \in ResultTags
          /\ stderr[j].tag = "Still downloading..."

C5_ReportedPathExists ==
    prog = "generator" =>
        /\ \A i \in Tagged(stdout, "IMAGE_PATH:") :
              /\ \E f \in files : f.run = runs /\ f.path = Resolve(stdout[i].arg)
              /\ Resolve(args.output_dir) \in dirs
        /\ (\E f \in files : f.run = runs) => Resolve(args.output_dir) \in dirs
        /\ Exited /\ status = ExitSuccess /\ ~cmdline.help =>
              Cardinality(Tagged(stdout, "IMAGE_PATH:")) = 1

C5_Witness ==
    /\ prog = "generator" /\ Exited /\ status = ExitSuccess
    /\ args.output_dir = <<"o">>
    /\ \E f \in files : f.path = Resolve(stdout[1].arg)

\* the finished generator runs that reported an image
Reported ==
    {i \in DOMAIN history :
        /\ history[i].prog = "generator"
        /\ history[i].status = ExitSuccess
        /\ Tagged(history[i].stdout, "IMAGE_PATH:") # {}}

(* C6: after any sequence of generator runs, each successful run's file is  *)
(* still the one that run wrote, and the files are as many as the           *)
(* successful runs.                                                         *)
C6_OneFilePerSuccessfulRun ==
    pc = "idle" =>
        /\ \A i \in Reported :
              \E f \in files :
                 /\ f.path = Resolve(history[i].stdout[1].arg)
                 /\ f.run = history[i].run
        /\ Cardinality(files) = Cardinality(Reported)

\* two successful runs, one file
C6_Overwritten == pc = "idle" /\ Cardinality(Reported) = 2 /\ Cardinality(files) = 1

(* C7: the path on the IMAGE_PATH line is absolute, whatever --output-dir   *)
(* was given.                                                               *)
C7_ReportedPathAbsolute ==
    \A i \in Tagged(stdout, "IMAGE_PATH:") : stdout[i].arg[1] = "/"

\* a relative path was reported
C7_RelativeReported ==
    /\ Exited /\ status = ExitSuccess
    /\ \E i \in Tagged(stdout, "IMAGE_PATH:") : stdout[i].arg[1] # "/"

\* s has sub at offset k, letter case ignored
MatchesAt(s, sub, k) ==
    /\ k + Len(sub) <= Len(s)
    /\ \A n \in 1..Len(sub) :
          \/ s[k + n] = sub[n]
          \/ \E u \in 1..Len(UpperChars) : s[k + n] = UpperChars[u] /\ sub[n] = LowerChars[u]

Mentions(s, sub) == \E k \in 0..Len(s) : MatchesAt(s, sub, k)

(* C8: the pipeline is invoked at most once, exactly once on a run that     *)
(* gets that far, with 4 steps / guidance 1.0 when the identifier mentions  *)
(* "turbo", else 30 / 7.5 when it mentions "xl" (or "sdxl"), else 25 / 7.5, *)
(* letter case ignored.                                                     *)
C8_Preset ==
    prog = "generator" =>
        /\ Len(calls) <= 1
        /\ pc \in {"g_makedirs", "g_save", "g_print", "g_return"} => Len(calls) = 1
        /\ \A i \in DOMAIN calls :
              LET m == args.model
                  want == IF Mentions(m, StrTurbo) THEN <<4, 10>>
                          ELSE IF Mentions(m, StrXl) \/ Mentions(m, StrSdxl) THEN <<30, 75>>
                          ELSE <<25, 75>>
              IN  <<calls[i].steps, calls[i].guidance>> = want

C8_Witness ==
    /\ prog = "generator" /\ Exited /\ status = ExitSuccess
    /\ Mentions(args.model, StrTurbo) /\ Mentions(args.model, StrXl)
    /\ args.model # Lower(args.model)
    /\ calls = <<[prompt |-> Prompt, steps |-> 4, guidance |-> 10]>>

(* C9: a run ended by an ImportError exits with status 1 after one          *)
(* "ERROR: Missing required library" line with the message, no trace and    *)
(* nothing on standard output; a run ended by any other exception exits     *)
(* with status 1 after one "ERROR:" line with the message, followed by the  *)
(* trace, and nothing on standard output.                                   *)
C9_ErrorReport ==
    Exited /\ exc.type # "none" =>
        /\ status = ExitFailure
        /\ stdout = <<>>
        /\ exc.type = "ImportError" =>
              /\ Cardinality(Tagged(stderr, "ERROR: Missing required library:")) = 1
              /\ \A i \in Tagged(stderr, "ERROR: Missing required library:") :
                    stderr[i].arg = <<exc.msg>>
              /\ Tagged(stderr, "Traceback") = {}
              /\ Tagged(stderr, "ERROR:") = {}
        /\ exc.type # "ImportError" =>
              /\ Cardinality(Tagged(stderr, "ERROR:")) = 1
              /\ Cardinality(Tagged(stderr, "Traceback")) = 1
              /\ Tagged(stderr, "ERROR: Missing required library:") = {}
              /\ \A i \in Tagged(stderr, "ERROR:") :
                    /\ stderr[i].arg = <<exc.msg>>
                    /\ \A j \in Tagged(stderr, "Traceback") : i < j

C9_Witness ==
    /\ Exited /\ prog = "installer" /\ exc.type = "ImportError"
    /\ Tagged(stderr, "Downloading model") = {}
    /\ Len(stderr) = 1 /\ status = ExitFailure

\* the spellings of "true"
TrueSpellings ==
    {<<a, b, c, d>> : a \in {"t", "T"}, b \in {"r", "R"}, c \in {"u", "U"}, d \in {"e", "E"}}

(* C10: in both scripts the device is the CPU when --use-cpu is "true" in   *)
(* any letter case, else the accelerator if there is one, else the CPU;     *)
(* float16 goes with the accelerator and float32 with the CPU.              *)
C10_Device ==
    device # "unset" =>
        /\ device = IF args.use_cpu \in TrueSpellings THEN "cpu"
                    ELSE IF cuda THEN "cuda" ELSE "cpu"
        /\ dtype = "float16" <=> device = "cuda"
        /\ dtype = "float32" <=> device = "cpu"

C10_Witness ==
    /\ prog = "installer" /\ cuda
    /\ args.use_cpu = <<"T", "R", "U", "E">>
    /\ device = "cpu" /\ dtype = "float32"

====
